---- MODULE Spec2Model ----
(***************************************************************************)
(* Read path of the append-only, PAD-aligned record log (package pen):     *)
(* NewReader / Reader.Read / Reader.Scan / Reader.Close, ReadFromReader    *)
(* and ScanFromReader, over a file of real bytes with the 16-byte header.  *)
(*                                                                         *)
(* Numbers.  The code computes in uint32 and int64.  TLC's integers stop   *)
(* at 2^31-1, so a number that can reach 2^32 is kept as two limbs,        *)
(* [hi, lo] with value hi * 2^16 + lo: a uint32 has hi < 2^16, an int64    *)
(* byte position may have a larger hi.  Nothing is scaled down: a uint32   *)
(* wraps at 2^32 exactly as in the build.                                  *)
(*                                                                         *)
(* Bytes.  A byte string is [lit, zeros]: the bytes lit followed by zeros  *)
(* zero bytes (a count in limbs), lit never ending in a zero byte.  This   *)
(* is what lets the model hold a 4 GiB sparse file and a 4 GiB payload.    *)
(*                                                                         *)
(* Specifications.  Spec follows one Reader of the later revision (the one *)
(* with NewReader(filename, blockSize)), one call at a time, over every    *)
(* file layout and with storage faults.  SpecHandles follows two Readers   *)
(* with a Read and a Scan in flight together, one positional read per      *)
(* step, for the later revision and for the earlier one (src/reader.go),   *)
(* whose block size is the package variable BLOCK_SIZE.                    *)
(***************************************************************************)
EXTENDS Integers, Sequences, FiniteSets, TLC

\* ------------------------------------------------------------ bounds
\* Most records the writer lays out in one file.
MaxSegs == 2

\* ------------------------------------------------------------ limb arithmetic
Limb == 2^16

Big(n) == [hi |-> n \div Limb, lo |-> n % Limb]

Big0 == Big(0)

\* 2^32 as an int64
TwoTo32 == [hi |-> Limb, lo |-> 0]

BigAdd(a, b) ==
    LET s == a.lo + b.lo
    IN  [hi |-> a.hi + b.hi + (s \div Limb), lo |-> s % Limb]

BigLt(a, b) == a.hi < b.hi \/ (a.hi = b.hi /\ a.lo < b.lo)

BigLe(a, b) == a = b \/ BigLt(a, b)

\* a - b for b <= a
BigSub(a, b) ==
    IF a.lo >= b.lo
    THEN [hi |-> a.hi - b.hi, lo |-> a.lo - b.lo]
    ELSE [hi |-> a.hi - b.hi - 1, lo |-> a.lo + Limb - b.lo]

BigMin(a, b) == IF BigLt(a, b) THEN a ELSE b

\* a * k for a small k (k < 2^15)
BigMulSmall(a, k) ==
    LET p == a.lo * k
    IN  [hi |-> a.hi * k + (p \div Limb), lo |-> p % Limb]

\* a \div k for a small k
BigDivSmall(a, k) ==
    [hi |-> a.hi \div k, lo |-> (((a.hi % k) * Limb) + a.lo) \div k]

\* the value as a TLC integer, for a value below 2^30
BigToInt(a) == a.hi * Limb + a.lo

\* conversion to uint32: the value modulo 2^32
U32(a) == [hi |-> a.hi % Limb, lo |-> a.lo]

\* ------------------------------------------------------------ byte strings
\* s without the zero bytes it ends in
StripZeros(s) ==
    LET nz == {i \in 1..Len(s) : s[i] # 0}
    IN  IF nz = {} THEN <<>> ELSE SubSeq(s, 1, CHOOSE i \in nz : \A j \in nz : j <= i)

\* the byte string of a sequence of bytes
Bytes(s) ==
    LET t == StripZeros(s)
    IN  [lit |-> t, zeros |-> Big(Len(s) - Len(t))]

NoBytes == Bytes(<<>>)

BLen(b) == BigAdd(Big(Len(b.lit)), b.zeros)

\* a ++ b
BCat(a, b) ==
    IF Len(b.lit) = 0
    THEN [lit |-> a.lit, zeros |-> BigAdd(a.zeros, b.zeros)]
    ELSE [lit |-> a.lit \o [i \in 1..BigToInt(a.zeros) |-> 0] \o b.lit, zeros |-> b.zeros]

\* a followed by n zero bytes
BPad(a, n) == [lit |-> a.lit, zeros |-> BigAdd(a.zeros, n)]

\* the n bytes of b from byte position pos on (pos + n <= BLen(b))
BSlice(b, pos, n) ==
    LET L == Len(b.lit)
    IN  IF BigLt(pos, Big(L))
        THEN LET p    == BigToInt(pos)
                 take == IF BigLt(n, Big(L - p)) THEN BigToInt(n) ELSE L - p
                 rest == BigSub(n, Big(take))
                 t    == StripZeros(SubSeq(b.lit, p + 1, p + take))
             IN  [lit |-> t, zeros |-> BigAdd(Big(take - Len(t)), rest)]
        ELSE [lit |-> <<>>, zeros |-> n]

\* the bytes of a short byte string, one by one
Flat(b) == b.lit \o [i \in 1..BigToInt(b.zeros) |-> 0]

\* s[i] + ... + s[j]
RECURSIVE SumRange(_, _, _)
SumRange(s, i, j) ==
    IF i > j THEN 0
    ELSE IF i = j THEN s[i]
    ELSE LET m == (i + j) \div 2 IN SumRange(s, i, m) + SumRange(s, m + 1, j)

SumSeq(s) == SumRange(s, 1, Len(s))

\* ------------------------------------------------------------ format
\* padding granularity and record alignment, in bytes
PAD == 64

\* size of the record header, len(header)
HeaderLen == 16

MAGIC == <<11, 14, 14, 15>>

\* the 32-bit checksum of the format, uint32(Hash(b)): every byte adds itself
\* plus one, so that any one changed byte and any change of length show
Hash(b) == U32(BigAdd(Big(SumSeq(b.lit)), BLen(b)))

\* binary.LittleEndian.Uint32(s[i:]) for 0-based i
Uint32(s, i) ==
    [hi |-> s[i + 3] + 256 * s[i + 4], lo |-> s[i + 1] + 256 * s[i + 2]]

\* binary.LittleEndian.PutUint32
PutUint32(v) == <<v.lo % 256, v.lo \div 256, v.hi % 256, v.hi \div 256>>

\* the 16 header bytes of a record announcing n payload bytes with data checksum c
EncodeHeader(n, c, magic) ==
    LET first12 == PutUint32(n) \o PutUint32(c) \o magic
    IN  first12 \o PutUint32(Hash(Bytes(first12)))

\* zero bytes that bring n bytes to the next PAD boundary
PadTo(n) == (PAD - (n % PAD)) % PAD

\* the bytes of one record as the writer lays them out, unpadded
EncodeRecord(payload) ==
    BCat(Bytes(EncodeHeader(BLen(payload), Hash(payload), MAGIC)), payload)

\* ------------------------------------------------------------ storage
\* Outcomes of a positional read: "ok" is a read the storage serves; "eio0" and
\* "eio16" are reads that fail with an I/O error after 0 and after 16 bytes.
Faults == {"ok", "eio0", "eio16"}

FaultKeep(fault) == IF fault = "eio0" THEN 0 ELSE 16

\* (*os.File).ReadAt(buf, pos) with len(buf) = len: n bytes, an error, the bytes.
\* n < len comes with a non-nil error, io.EOF at the end of the file; an empty
\* buffer reads 0 bytes with a nil error.
ReadAt(f, pos, len, fault) ==
    LET size  == BLen(f)
        avail == IF BigLt(pos, size) THEN BigSub(size, pos) ELSE Big0
        full  == BigMin(len, avail)
        n     == IF fault = "ok" THEN full ELSE BigMin(Big(FaultKeep(fault)), full)
    IN  [n   |-> n,
         err |-> IF fault # "ok" THEN "EIO" ELSE IF BigLt(n, len) THEN "EOF" ELSE "nil",
         buf |-> BSlice(f, pos, n)]

\* ------------------------------------------------------------ ReadFromReader
\* offset * PAD as a product of integers, without a word size
ReadPosWide(offset) == BigMulSmall(offset, PAD)

\* int64(offset*PAD): the product is a uint32 product, converted afterwards
ReadPos(offset) == U32(BigMulSmall(offset, PAD))

\* a reader whose second read starts at the header instead of behind it
DataPosAtHeader(offset) == ReadPos(offset)

\* int64(offset*PAD) + int64(len(header))
DataPos(offset) == BigAdd(ReadPos(offset), Big(HeaderLen))

\* offset + ceil((16 + metadataLen) / PAD) as integers, without a word size
NextOffsetWide(offset, metadataLen) ==
    BigAdd(offset,
           BigDivSmall(BigAdd(BigAdd(Big(HeaderLen), metadataLen), Big(PAD - 1)), PAD))

\* offset + ((uint32(len(header)) + uint32(metadataLen)) + PAD - 1) / PAD, in uint32
NextOffset(offset, metadataLen) ==
    U32(BigAdd(offset,
               BigDivSmall(U32(BigAdd(U32(BigAdd(Big(HeaderLen), metadataLen)),
                                      Big(PAD - 1))),
                           PAD)))

\* bytes.Equal(header[8:12], MAGIC)
MagicOk(header) == SubSeq(header, 9, 12) = MAGIC

\* a reader that does not compare the header checksum
HeaderSumOkNever(header) == TRUE

\* checksumHeader == uint32(Hash(header[:12]))
HeaderSumOk(header) == Uint32(header, 12) = Hash(Bytes(SubSeq(header, 1, 12)))

\* a reader that does not compare the data checksum
DataSumOkNever(header, readInto) == TRUE

\* checksumHeaderData == uint32(Hash(readInto))
DataSumOk(header, readInto) == Uint32(header, 4) = Hash(readInto)

\* int(metadataLen) < len(block)-len(header): the payload is cut from the block
\* (int is the 64-bit int of the supported builds, so int(metadataLen) is exact)
InBlock(metadataLen, blockLen) == BigLt(metadataLen, Big(blockLen - HeaderLen))

\* what a failed read returns: nil, 0, err
Failed(err, io) == [data |-> NoBytes, next |-> Big0, err |-> err, io |-> io]

\* ReadFromReader(reader, offset, blockSize); f1 and f2 are the outcomes the
\* storage gives the first and the second positional read.  io lists the
\* positional reads issued: position, length asked, bytes read, error.
ReadFromReader(f, offset, blockSize, f1, f2) ==
    LET r1   == ReadAt(f, ReadPos(offset), Big(blockSize), f1)
        io1  == <<[pos |-> ReadPos(offset), len |-> Big(blockSize), n |-> r1.n, err |-> r1.err]>>
        n    == BigToInt(r1.n)
    IN  IF n < HeaderLen THEN Failed(r1.err, io1)
        ELSE
        LET block       == Flat(r1.buf)
            header      == SubSeq(block, 1, HeaderLen)
            metadataLen == Uint32(header, 0)
            nextOffset  == NextOffset(offset, metadataLen)
        IN  IF ~MagicOk(header) THEN Failed("EBADSLT", io1)
            ELSE IF ~HeaderSumOk(header) THEN Failed("EBADSLT", io1)
            ELSE IF InBlock(metadataLen, Len(block))
            THEN LET readInto ==
                         Bytes(SubSeq(block, HeaderLen + 1, HeaderLen + BigToInt(metadataLen)))
                 IN  IF ~DataSumOk(header, readInto) THEN Failed("EBADSLT", io1)
                     ELSE [data |-> readInto, next |-> nextOffset, err |-> "nil", io |-> io1]
            ELSE LET r2  == ReadAt(f, DataPos(offset), metadataLen, f2)
                     io2 == Append(io1, [pos |-> DataPos(offset), len |-> metadataLen,
                                         n |-> r2.n, err |-> r2.err])
                 IN  IF r2.err # "nil" THEN Failed(r2.err, io2)
                     ELSE IF ~DataSumOk(header, r2.buf) THEN Failed("EBADSLT", io2)
                     ELSE [data |-> r2.buf, next |-> nextOffset, err |-> "nil", io |-> io2]

\* ------------------------------------------------------------ files
\* What the appender can leave in a file, one PAD-aligned piece after another:
\* whole records, records damaged in place afterwards, and the pieces a crash
\* in the middle of an append leaves behind.
P5 == <<104, 101, 108, 108, 111>>

P16 == [i \in 1..16 |-> i]

P50 == [i \in 1..50 |-> 100 + i]

P200 == [i \in 1..200 |-> IF i <= 20 THEN 7 ELSE 0]

\* the longest payload whose record ends on the 4 GiB boundary: 2^32 - 16 bytes
HugeLen == BigSub(TwoTo32, Big(HeaderLen))

Huge == [lit |-> <<>>, zeros |-> HugeLen]

\* s with the byte at 0-based position i changed
Flip(s, i) == [s EXCEPT ![i + 1] = (s[i + 1] + 1) % 256]

Whole == {"r0", "r5", "r16", "r50", "huge"}

Kinds == Whole \cup {"badmagic", "badsum", "baddata", "cut", "stub"}

\* pieces after which the appender cannot continue
LastOnly == {"huge", "stub"}

Payload(kind) ==
    CASE kind = "r0"   -> NoBytes
      [] kind = "r16"  -> Bytes(P16)
      [] kind = "r50"  -> Bytes(P50)
      [] kind = "huge" -> Huge
      [] kind = "cut"  -> Bytes(P200)
      [] OTHER         -> Bytes(P5)

\* the bytes of a piece before padding
Raw(kind) ==
    CASE kind \in Whole    -> EncodeRecord(Payload(kind))
      [] kind = "badmagic" -> Bytes(Flip(Flat(EncodeRecord(Bytes(P5))), 9))
      [] kind = "badsum"   -> Bytes(Flip(Flat(EncodeRecord(Bytes(P5))), 0))
      [] kind = "baddata"  -> Bytes(Flip(Flat(EncodeRecord(Bytes(P5))), 16))
      [] kind = "cut"      ->
            Bytes(EncodeHeader(Big(200), Hash(Bytes(P200)), MAGIC) \o SubSeq(P200, 1, 20))
      [] kind = "stub"     -> Bytes(SubSeq(Flat(EncodeRecord(Bytes(P5))), 1, 10))

\* a piece in the file: padded to the next PAD boundary, unless the file ends
\* in the middle of it
Piece(kind, last) ==
    IF kind = "stub" \/ (kind = "cut" /\ last)
    THEN Raw(kind)
    ELSE BPad(Raw(kind), Big(PadTo(BLen(Raw(kind)).lo)))

Layouts ==
    {k \in UNION {[1..n -> Kinds] : n \in 0..MaxSegs} :
        \A i \in 1..Len(k) : k[i] \in LastOnly => i = Len(k)}

RECURSIVE FileOf(_, _)
FileOf(k, n) ==
    IF n = 0 THEN NoBytes ELSE BCat(FileOf(k, n - 1), Piece(k[n], n = Len(k)))

\* where the pieces lie: logical offset, logical offset of the next piece, kind,
\* and the payload written
Written(k) ==
    [i \in 1..Len(k) |->
        [kind    |-> k[i],
         off     |-> BigDivSmall(BLen(FileOf(k, i - 1)), PAD),
         next    |-> BigDivSmall(BigAdd(BLen(FileOf(k, i)), Big(PAD - 1)), PAD),
         payload |-> Payload(k[i])]]

\* ------------------------------------------------------------ state
VARIABLES
    file,       \* the bytes of the log file
    written,    \* what the appender wrote where (history, not read by the code)
    ctor,       \* the last NewReader call: argument, error, files opened
    handle,     \* the Reader: state and blockSize
    rd,         \* the last Reader.Read call: offset and what it returned
    sc,         \* the Reader.Scan call: cursor, outcome, and its history
    delivered,  \* the callback invocations of the scan, in order
    revision,   \* the revision built: "later" (blockSize per Reader) or "earlier"
    BLOCK_SIZE, \* the package variable of the earlier revision
    readers,    \* the Readers of an application that opens several
    pend        \* the locals of the Read and the Scan call in flight on them

\* the state of the application with several Readers and concurrent calls
hvars == <<revision, BLOCK_SIZE, readers, pend>>

vars == <<file, written, ctor, handle, rd, sc, delivered, revision, BLOCK_SIZE, readers, pend>>

\* the Readers of the application with several Readers
Handles == {1, 2}

\* var BLOCK_SIZE = 4096
BLOCK_SIZE_DEFAULT == 4096

\* no Reader constructed
NoReader == [st |-> "none", blockSize |-> 0, made |-> 0]

\* the locals of a call that was not made
NoCall ==
    [st |-> "none", h |-> 0, bs |-> 0, stopAt |-> 0, header |-> <<>>,
     metadataLen |-> Big0, nextOffset |-> Big0, io |-> <<>>]

\* no Reader and no call
Unused ==
    /\ revision = "later"
    /\ BLOCK_SIZE = BLOCK_SIZE_DEFAULT
    /\ readers = [h \in Handles |-> NoReader]
    /\ pend = [rd |-> NoCall, sc |-> NoCall]

\* blockSize arguments given to NewReader
BlockSizes == {0, 7, 32, 128}

\* logical offsets given to Read
ReadOffsets == {Big(0), Big(1), Big(2), [hi |-> 2^10, lo |-> 0], [hi |-> 2^16 - 1, lo |-> 2^16 - 1]}

\* logical offsets given to Scan
ScanOffsets == {Big(0), Big(1)}

\* what the callback can return
CbRets == {"nil", "ECB", "EOF", "EBADSLT"}

MaxIter == 2 * MaxSegs + 2

NoResult == [data |-> NoBytes, next |-> Big0, err |-> "none", io |-> <<>>]

Init ==
    /\ \E k \in Layouts : file = FileOf(k, Len(k)) /\ written = Written(k)
    /\ ctor = [arg |-> 0, err |-> "none", opens |-> 0]
    /\ handle = [st |-> "none", blockSize |-> 0]
    /\ rd = [called |-> FALSE, offset |-> Big0, res |-> NoResult]
    /\ sc = [st |-> "idle", start |-> Big0, offset |-> Big0, ret |-> "none", iters |-> 0,
             resyncs |-> 0, ioErr |-> FALSE, last |-> NoResult, lastAt |-> Big0, cb |-> "none"]
    /\ delivered = <<>>
    /\ Unused

\* a constructor that keeps the earlier revision's default block of 4096 bytes
DefaultBlockSize4096(blockSize) == IF blockSize = 0 THEN 4096 ELSE blockSize

\* if blockSize == 0 { blockSize = 16 }
DefaultBlockSize(blockSize) == IF blockSize = 0 THEN 16 ELSE blockSize

\* if blockSize < 16 { return nil, EINVAL }
BlockSizeOk(blockSize) == ~(blockSize < 16)

\* NewReader(filename, blockSize); openOk is whether os.OpenFile succeeds
NewReader(blockSize, openOk) ==
    /\ handle.st = "none"
    /\ ctor.err = "none"
    /\ LET b == DefaultBlockSize(blockSize)
       IN  IF ~BlockSizeOk(b)
           THEN /\ ctor' = [arg |-> blockSize, err |-> "EINVAL", opens |-> ctor.opens]
                /\ UNCHANGED handle
           ELSE IF ~openOk
           THEN /\ ctor' = [arg |-> blockSize, err |-> "ENOENT", opens |-> ctor.opens + 1]
                /\ UNCHANGED handle
           ELSE /\ ctor' = [arg |-> blockSize, err |-> "nil", opens |-> ctor.opens + 1]
                /\ handle' = [st |-> "open", blockSize |-> b]
    /\ UNCHANGED <<file, written, rd, sc, delivered>>
    /\ UNCHANGED hvars

\* (ar *Reader) Read(offset)
Read(offset, f1, f2) ==
    /\ handle.st = "open"
    /\ sc.st = "idle"
    /\ ~rd.called
    /\ rd' = [called |-> TRUE, offset |-> offset,
              res |-> ReadFromReader(file, offset, handle.blockSize, f1, f2)]
    /\ UNCHANGED <<file, written, ctor, handle, sc, delivered>>
    /\ UNCHANGED hvars

\* (ar *Reader) Scan(offset, cb): entry into ScanFromReader's loop
ScanStart(offset) ==
    /\ handle.st = "open"
    /\ sc.st = "idle"
    /\ ~rd.called
    /\ sc' = [sc EXCEPT !.st = "run", !.start = offset, !.offset = offset]
    /\ UNCHANGED <<file, written, ctor, handle, rd, delivered>>
    /\ UNCHANGED hvars

\* a scan that retries a corrupt offset without advancing
Resync0(offset) == offset

\* a scan that skips two offset units after a corrupt candidate
Resync2(offset) == U32(BigAdd(offset, Big(2)))

\* offset++ in uint32
Resync(offset) == U32(BigAdd(offset, Big(1)))

\* a scan that passes io.EOF of a read on to its caller
EofRetErr == "EOF"

\* err == io.EOF: the scan returns nil
EofRet == "nil"

\* a scan that takes io.EOF from the callback for the end of the data
CbRetNil(c) == IF c = "EOF" THEN "nil" ELSE c

\* err = cb(data, offset, next); if err != nil { return err }
CbRet(c) == c

\* the scan's history after the read r of one more iteration
Noted(r) ==
    [sc EXCEPT !.iters = @ + 1, !.last = r, !.lastAt = sc.offset,
               !.ioErr = @ \/ \E i \in 1..Len(r.io) : r.io[i].err = "EIO"]

\* the body of ScanFromReader's loop after the read returned r; c is what the
\* callback returns if it is invoked; s0 is Noted(r)
LoopBody(r, s0, c) ==
    IF r.err = "EOF"
    THEN /\ sc' = [s0 EXCEPT !.st = "done", !.ret = EofRet]
         /\ UNCHANGED delivered
    ELSE IF r.err = "EBADSLT"
    THEN /\ sc' = [s0 EXCEPT !.offset = Resync(@), !.resyncs = @ + 1]
         /\ UNCHANGED delivered
    ELSE IF r.err # "nil"
    THEN /\ sc' = [s0 EXCEPT !.st = "done", !.ret = r.err]
         /\ UNCHANGED delivered
    ELSE /\ delivered' = Append(delivered,
                                [data |-> r.data, offset |-> sc.offset, next |-> r.next])
         /\ IF c # "nil"
            THEN sc' = [s0 EXCEPT !.cb = c, !.st = "done", !.ret = CbRet(c)]
            ELSE sc' = [s0 EXCEPT !.cb = c, !.offset = r.next]

Iterate(r, c) == LoopBody(r, Noted(r), c)

\* one iteration of ScanFromReader's loop: the read, and the callback if the
\* read succeeded
ScanStep(f1, f2, c) ==
    /\ sc.st = "run"
    /\ sc.iters < MaxIter
    /\ Iterate(ReadFromReader(file, sc.offset, handle.blockSize, f1, f2), c)
    /\ UNCHANGED <<file, written, ctor, handle, rd>>
    /\ UNCHANGED hvars

\* (ar *Reader) Close(), called with no read or scan in flight; calls on a
\* closed handle are not followed
Close ==
    /\ handle.st = "open"
    /\ sc.st # "run"
    /\ handle' = [handle EXCEPT !.st = "closed"]
    /\ UNCHANGED <<file, written, ctor, rd, sc, delivered>>
    /\ UNCHANGED hvars

Next ==
    \/ \E b \in BlockSizes, openOk \in BOOLEAN : NewReader(b, openOk)
    \/ \E o \in ReadOffsets, f1 \in Faults, f2 \in Faults : Read(o, f1, f2)
    \/ \E o \in ScanOffsets : ScanStart(o)
    \/ \E f1 \in Faults, f2 \in Faults, c \in CbRets : ScanStep(f1, f2, c)
    \/ Close

Spec == Init /\ [][Next]_vars

\* ------------------------------------------------------------ concurrent calls
\* An application that opens two Readers on the file, sets BLOCK_SIZE where
\* the revision has it, and has one Read and one Scan in flight at a time, on
\* the same Reader or on different ones.  A call proceeds one positional read
\* at a time, so the positional reads of the two calls interleave in every
\* order.  The source serves every read; the file does not change.

\* ReadFromReader up to the point where the payload is cut from the block or
\* the second positional read is due: the locals of the call at that point
ReadBlock(f, offset, blockSize, f1) ==
    LET r1   == ReadAt(f, ReadPos(offset), Big(blockSize), f1)
        io1  == <<[pos |-> ReadPos(offset), len |-> Big(blockSize), n |-> r1.n, err |-> r1.err]>>
        n    == BigToInt(r1.n)
        done == [st |-> "done", header |-> <<>>, metadataLen |-> Big0,
                 nextOffset |-> Big0, io |-> io1]
    IN  IF n < HeaderLen THEN [loc |-> done, res |-> Failed(r1.err, io1)]
        ELSE
        LET block       == Flat(r1.buf)
            header      == SubSeq(block, 1, HeaderLen)
            metadataLen == Uint32(header, 0)
            nextOffset  == NextOffset(offset, metadataLen)
        IN  IF ~MagicOk(header) THEN [loc |-> done, res |-> Failed("EBADSLT", io1)]
            ELSE IF ~HeaderSumOk(header) THEN [loc |-> done, res |-> Failed("EBADSLT", io1)]
            ELSE IF InBlock(metadataLen, Len(block))
            THEN LET readInto ==
                         Bytes(SubSeq(block, HeaderLen + 1, HeaderLen + BigToInt(metadataLen)))
                 IN  IF ~DataSumOk(header, readInto)
                     THEN [loc |-> done, res |-> Failed("EBADSLT", io1)]
                     ELSE [loc |-> done,
                           res |-> [data |-> readInto, next |-> nextOffset, err |-> "nil",
                                    io |-> io1]]
            ELSE [loc |-> [st |-> "second", header |-> header, metadataLen |-> metadataLen,
                           nextOffset |-> nextOffset, io |-> io1],
                  res |-> NoResult]

\* the rest of ReadFromReader: the second positional read and the data
\* checksum, from the locals loc the call kept
ReadData(f, offset, loc, f2) ==
    LET r2  == ReadAt(f, DataPos(offset), loc.metadataLen, f2)
        io2 == Append(loc.io, [pos |-> DataPos(offset), len |-> loc.metadataLen,
                               n |-> r2.n, err |-> r2.err])
    IN  IF r2.err # "nil" THEN Failed(r2.err, io2)
        ELSE IF ~DataSumOk(loc.header, r2.buf) THEN Failed("EBADSLT", io2)
        ELSE [data |-> r2.buf, next |-> loc.nextOffset, err |-> "nil", io |-> io2]

\* a Reader that keeps one block for all its calls: a call finds in it what
\* the other call in flight read
LocalsShared(own, other) == IF other.st = "second" THEN other ELSE own

\* block and header are allocated by each call (block := make([]byte, ...)):
\* what a call parsed from its block is its own, whatever the other call does
Locals(own, other) == own

\* files of the application with several Readers
SharedLayouts ==
    {<<"r5", "r50">>, <<"badsum", "r16">>, <<"r50", "cut">>, <<"r0">>, <<"baddata", "r50">>}

\* block sizes the application asks for
TunedSizes == {0, 128}

\* what the scan's callback returns for the record at offset: an error at the
\* offset the application stops at
Callback(offset) == IF Big(pend.sc.stopAt) = offset THEN "ECB" ELSE "nil"

\* where the application may tell its callback to stop; 9 is never reached
StopAts == {1, 9}

InitHandles ==
    /\ \E k \in SharedLayouts : file = FileOf(k, Len(k)) /\ written = Written(k)
    /\ ctor = [arg |-> 0, err |-> "none", opens |-> 0]
    /\ handle = [st |-> "none", blockSize |-> 0]
    /\ rd = [called |-> FALSE, offset |-> Big0, res |-> NoResult]
    /\ sc = [st |-> "idle", start |-> Big0, offset |-> Big0, ret |-> "none", iters |-> 0,
             resyncs |-> 0, ioErr |-> FALSE, last |-> NoResult, lastAt |-> Big0, cb |-> "none"]
    /\ delivered = <<>>
    /\ revision \in {"earlier", "later"}
    /\ BLOCK_SIZE = BLOCK_SIZE_DEFAULT
    /\ readers = [h \in Handles |-> NoReader]
    /\ pend = [rd |-> NoCall, sc |-> NoCall]

\* no call is in flight
Quiet == pend.rd.st # "second" /\ sc.st # "run"

\* the application assigns the package variable BLOCK_SIZE of the earlier
\* revision, while no call is in flight
SetBLOCK_SIZE(b) ==
    /\ revision = "earlier"
    /\ Quiet
    /\ b # BLOCK_SIZE
    /\ BLOCK_SIZE' = b
    /\ UNCHANGED <<file, written, ctor, handle, rd, sc, delivered, revision, readers, pend>>

\* NewReader for the Reader h that succeeds: NewReader(filename, blockSize) of
\* the later revision, NewReader(filename) of the earlier one.  made is the
\* block size in force for the Reader when it is constructed.
NewReaderOn(h, blockSize) ==
    /\ readers[h].st = "none"
    /\ IF revision = "later"
       THEN /\ BlockSizeOk(DefaultBlockSize(blockSize))
            /\ readers' = [readers EXCEPT ![h] =
                              [st |-> "open", blockSize |-> DefaultBlockSize(blockSize),
                               made |-> DefaultBlockSize(blockSize)]]
       ELSE readers' = [readers EXCEPT ![h] =
                           [st |-> "open", blockSize |-> 0, made |-> BLOCK_SIZE]]
    /\ UNCHANGED <<file, written, ctor, handle, rd, sc, delivered, revision, BLOCK_SIZE, pend>>

\* the block size a call on the Reader h reads with: ar.blockSize in the later
\* revision, BLOCK_SIZE in the earlier one
BlockSizeOf(h) == IF revision = "later" THEN readers[h].blockSize ELSE BLOCK_SIZE

\* the locals of a call on h with block size bs after its first positional read
Kept(p, h, bs, stopAt) ==
    [st |-> p.loc.st, h |-> h, bs |-> bs, stopAt |-> stopAt, header |-> p.loc.header,
     metadataLen |-> p.loc.metadataLen, nextOffset |-> p.loc.nextOffset, io |-> p.loc.io]

\* the Read call after its first positional read gave p
ReadFirstWith(p, h, offset) ==
    /\ pend' = [pend EXCEPT !.rd = Kept(p, h, BlockSizeOf(h), 0)]
    /\ rd' = [called |-> p.loc.st = "done", offset |-> offset, res |-> p.res]

\* ar.Read(offset) on the Reader h, up to the return or to the second read
ReadFirst(h, offset) ==
    /\ readers[h].st = "open"
    /\ pend.rd.st = "none"
    /\ ReadFirstWith(ReadBlock(file, offset, BlockSizeOf(h), "ok"), h, offset)
    /\ UNCHANGED <<file, written, ctor, handle, sc, delivered, revision, BLOCK_SIZE, readers>>

\* the second positional read of the Read call, and its return
ReadSecond ==
    /\ pend.rd.st = "second"
    /\ rd' = [rd EXCEPT !.called = TRUE,
                        !.res = ReadData(file, rd.offset, Locals(pend.rd, pend.sc), "ok")]
    /\ pend' = [pend EXCEPT !.rd.st = "done"]
    /\ UNCHANGED <<file, written, ctor, handle, sc, delivered, revision, BLOCK_SIZE, readers>>

\* ar.Scan(0, cb) on the Reader h: entry into ScanFromReader's loop
ScanBegin(h, stopAt) ==
    /\ readers[h].st = "open"
    /\ sc.st = "idle"
    /\ sc' = [sc EXCEPT !.st = "run"]
    /\ pend' = [pend EXCEPT !.sc = [NoCall EXCEPT !.st = "first", !.h = h,
                                                  !.bs = BlockSizeOf(h), !.stopAt = stopAt]]
    /\ UNCHANGED <<file, written, ctor, handle, rd, delivered, revision, BLOCK_SIZE, readers>>

\* the scan after the read of its iteration returned r
ScanReturned(r) ==
    /\ Iterate(r, Callback(sc.offset))
    /\ pend' = [pend EXCEPT !.sc.st = IF sc'.st = "run" THEN "first" ELSE "done"]

\* the scan after the first positional read of an iteration gave p
ScanFirstWith(p) ==
    IF p.loc.st = "done"
    THEN ScanReturned(p.res)
    ELSE /\ pend' = [pend EXCEPT !.sc = Kept(p, pend.sc.h, pend.sc.bs, pend.sc.stopAt)]
         /\ UNCHANGED <<sc, delivered>>

\* one iteration of the scan up to the second positional read, or to its end
\* when the read returns without one
ScanFirst ==
    /\ sc.st = "run"
    /\ pend.sc.st = "first"
    /\ sc.iters < MaxIter
    /\ ScanFirstWith(ReadBlock(file, sc.offset, BlockSizeOf(pend.sc.h), "ok"))
    /\ UNCHANGED <<file, written, ctor, handle, rd, revision, BLOCK_SIZE, readers>>

\* the second positional read of the iteration, and the rest of the iteration
ScanSecond ==
    /\ sc.st = "run"
    /\ pend.sc.st = "second"
    /\ ScanReturned(ReadData(file, sc.offset, Locals(pend.sc, pend.rd), "ok"))
    /\ UNCHANGED <<file, written, ctor, handle, rd, revision, BLOCK_SIZE, readers>>

\* ar.Close() on the Reader h, with no call in flight
CloseOn(h) ==
    /\ readers[h].st = "open"
    /\ Quiet
    /\ readers' = [readers EXCEPT ![h].st = "closed"]
    /\ UNCHANGED <<file, written, ctor, handle, rd, sc, delivered, revision, BLOCK_SIZE, pend>>

NextHandles ==
    \/ \E b \in {16, BLOCK_SIZE_DEFAULT} : SetBLOCK_SIZE(b)
    \/ \E h \in Handles, b \in TunedSizes : NewReaderOn(h, b)
    \/ \E h \in Handles, o \in ScanOffsets : ReadFirst(h, o)
    \/ ReadSecond
    \/ \E h \in Handles, s \in StopAts : ScanBegin(h, s)
    \/ ScanFirst
    \/ ScanSecond
    \/ \E h \in Handles : CloseOn(h)

SpecHandles == InitHandles /\ [][NextHandles]_vars

\* ------------------------------------------------------------ properties
\* bytes the file holds from byte position pos on
Avail(pos) == IF BigLt(pos, BLen(file)) THEN BigSub(BLen(file), pos) ELSE Big0

\* the read reported no I/O failure other than end of data
NoIoError(res) == \A i \in 1..Len(res.io) : res.io[i].err # "EIO"

\* the file holds whole records only
OnlyRecords == \A i \in 1..Len(written) : written[i].kind \in Whole

\* C1: in a file made only of well-formed records laid out back to back, a
\* read at the logical offset of a record returns that record's payload and,
\* as next offset, the logical offset of the record that follows (the end of
\* the file for the last record).
C1_ReadReturnsRecord ==
    (rd.called /\ OnlyRecords /\ NoIoError(rd.res)) =>
        \A i \in 1..Len(written) :
            rd.offset = written[i].off =>
                /\ rd.res.err = "nil"
                /\ rd.res.data = written[i].payload
                /\ rd.res.next = written[i].next

\* C1 with the records of 4 GiB left out
C1_BelowFourGiB ==
    (rd.called /\ OnlyRecords /\ NoIoError(rd.res)) =>
        \A i \in 1..Len(written) :
            (rd.offset = written[i].off /\ written[i].kind # "huge") =>
                /\ rd.res.err = "nil"
                /\ rd.res.data = written[i].payload
                /\ rd.res.next = written[i].next

\* at least 16 bytes lie at the byte position a read at the logical offset uses
BLe16(offset) == BigLe(Big(HeaderLen), Avail(ReadPos(offset)))

\* the 16 bytes a read at the logical offset takes as the header
HeaderAt(offset) == Flat(BSlice(file, ReadPos(offset), Big(HeaderLen)))

\* the candidate at the logical offset passes the three checks with payload data
ThreeChecks(offset, data) ==
    /\ BLe16(offset)
    /\ LET h == HeaderAt(offset)
       IN  /\ <<h[9], h[10], h[11], h[12]>> = MAGIC
           /\ PutUint32(Hash(Bytes(SubSeq(h, 1, 12)))) = SubSeq(h, 13, 16)
           /\ PutUint32(Hash(data)) = SubSeq(h, 5, 8)
           /\ PutUint32(BLen(data)) = SubSeq(h, 1, 4)

\* C2: a read returns a payload only if the candidate at its offset has the
\* magic constant, a header checksum equal to the checksum of its first 12
\* header bytes and a data checksum equal to the checksum of the payload
\* returned; the same holds of every payload a scan hands to the callback.
C2_SuccessOnlyIfAllChecks ==
    /\ (rd.called /\ rd.res.err = "nil") => ThreeChecks(rd.offset, rd.res.data)
    /\ \A i \in 1..Len(delivered) : ThreeChecks(delivered[i].offset, delivered[i].data)

\* a read that returned a payload of a file that also holds a damaged record
C2_Witness ==
    /\ rd.called /\ rd.res.err = "nil" /\ Len(rd.res.data.lit) > 0
    /\ \E i \in 1..Len(written) : written[i].kind \in {"badmagic", "badsum", "baddata"}

\* the whole records of the file, in the order written
Records == SelectSeq(written, LAMBDA w : w.kind \in Whole)

\* C3: a scan from offset 0 over a file of K valid records separated by
\* corrupt byte runs hands the callback exactly the K records, each once, in
\* ascending offset order: at every moment what was delivered is the first
\* records of the file, and a scan that ends with success has delivered all.
C3_ScanVisitsEachRecordOnce ==
    (sc.st # "idle" /\ sc.start = Big0) =>
        /\ Len(delivered) <= Len(Records)
        /\ \A i \in 1..Len(delivered) :
               i <= Len(Records) =>
                   /\ delivered[i].offset = Records[i].off
                   /\ delivered[i].data = Records[i].payload
        /\ (sc.st = "done" /\ sc.ret = "nil") => Len(delivered) = Len(Records)

\* the file holds no whole record
AllCorrupt == \A i \in 1..Len(written) : written[i].kind \notin Whole

\* the length of a file below 2^30 bytes in PAD units, rounded up
Units == (BigToInt(BLen(file)) + PAD - 1) \div PAD

C5_IoFailureIsFatal ==
    /\ (rd.called /\ ~NoIoError(rd.res)) => rd.res.err = "EIO"
    /\ sc.ioErr => (sc.st = "done" /\ sc.ret = "EIO")

\* C6: a read returns end of data exactly when fewer than 16 bytes lie at the
\* byte position it asked the source for and the source reports normal
\* exhaustion; a scan ends with success only with its cursor at a position
\* with fewer than 16 bytes left.
C6_EndOfDataIffShort ==
    /\ rd.called =>
           (rd.res.err = "EOF" <=>
                (BigLt(Avail(rd.res.io[1].pos), Big(HeaderLen)) /\ NoIoError(rd.res)))
    /\ (sc.st = "done" /\ sc.ret = "nil") =>
           BigLt(Avail(sc.last.io[1].pos), Big(HeaderLen))

\* C7: when the callback returns an error the scan ends in that very step and
\* returns exactly that error, and the callback is not invoked again.
C7_CallbackErrorEndsScan ==
    [][/\ sc'.cb \notin {"none", "nil"} => (sc'.st = "done" /\ sc'.ret = sc'.cb)
       /\ sc.cb \notin {"none", "nil"} => (delivered' = delivered /\ sc' = sc)]_vars

\* a scan that handed over a record and then got io.EOF from the callback
C7_Witness == sc.st = "done" /\ sc.cb = "EOF" /\ Len(delivered) >= 2

\* the results ReadFromReader can give at a logical offset with a block size
Outcomes(offset, blockSize) ==
    {ReadFromReader(file, offset, blockSize, f1, f2) : f1 \in Faults, f2 \in Faults}

\* C8: NewReader with a block size in 1..15 fails with "invalid argument"
\* before it opens the file; with block size 0 it gives a handle of block size
\* 16, whose reads and scan iterations are those of block size 16; a block size
\* of 16 or more is stored unchanged.
C8_BlockSizeArgument ==
    /\ (ctor.err # "none" /\ ctor.arg \in 1..15) =>
           (ctor.err = "EINVAL" /\ ctor.opens = 0 /\ handle.st = "none")
    /\ (ctor.err = "nil" /\ ctor.arg = 0) =>
           /\ handle.blockSize = 16
           /\ rd.called => rd.res \in Outcomes(rd.offset, 16)
           /\ sc.iters > 0 => sc.last \in Outcomes(sc.lastAt, 16)
    /\ (ctor.err = "nil" /\ ctor.arg >= 16) => handle.blockSize = ctor.arg

\* a handle made with block size 0 that read a record whose payload does not
\* fit a block of 16 bytes
C8_Witness ==
    /\ ctor.err = "nil" /\ ctor.arg = 0
    /\ rd.called /\ rd.res.err = "nil" /\ Len(rd.res.io) = 2

\* C9: the first positional read of a read is at byte position offset * PAD
\* and the second at offset * PAD + 16, for every 32-bit offset, without
\* wrapping at 2^32.
C9_BytePosition ==
    rd.called =>
        /\ rd.res.io[1].pos = ReadPosWide(rd.offset)
        /\ Len(rd.res.io) = 2 =>
               rd.res.io[2].pos = BigAdd(ReadPosWide(rd.offset), Big(HeaderLen))

\* C10: a successful read returns offset + ceil((16 + metadata_length) / PAD)
\* as next offset, metadata_length being the length of the payload returned.
C10_NextOffset ==
    /\ (rd.called /\ rd.res.err = "nil") =>
           rd.res.next = NextOffsetWide(rd.offset, BLen(rd.res.data))
    /\ \A i \in 1..Len(delivered) :
           delivered[i].next = NextOffsetWide(delivered[i].offset, BLen(delivered[i].data))

\* the 16 bytes the first positional read of a read took as the header
HeaderRead(res) == Flat(BSlice(file, res.io[1].pos, Big(HeaderLen)))

\* the first positional read of the read brought a header that passes the
\* magic check and the header-checksum check
HeaderPassed(res) ==
    /\ BigLe(Big(HeaderLen), res.io[1].n)
    /\ SubSeq(HeaderRead(res), 9, 12) = MAGIC
    /\ PutUint32(Hash(Bytes(SubSeq(HeaderRead(res), 1, 12)))) = SubSeq(HeaderRead(res), 13, 16)

\* the length field of the header the read took
LengthField(res) == Uint32(HeaderRead(res), 0)

\* the payload announced lies within the bytes of the first positional read:
\* 16 + metadata_length <= bytes read
PayloadInFirstRead(res) ==
    BigLe(BigAdd(Big(HeaderLen), LengthField(res)), res.io[1].n)

\* C13: whenever the header is good and the payload lies entirely within the
\* bytes the first positional read returned, the record filling the block
\* exactly included, the read issues no second positional read.
C13_FastPath ==
    /\ (rd.called /\ HeaderPassed(rd.res) /\ PayloadInFirstRead(rd.res)) =>
           Len(rd.res.io) = 1
    /\ (sc.iters > 0 /\ HeaderPassed(sc.last) /\ PayloadInFirstRead(sc.last)) =>
           Len(sc.last.io) = 1

\* C13 for the payloads that end before the last byte read
C13_StrictlyInside ==
    (rd.called /\ HeaderPassed(rd.res)
        /\ BigLt(BigAdd(Big(HeaderLen), LengthField(rd.res)), rd.res.io[1].n)) =>
            Len(rd.res.io) = 1

\* the positional reads of one read call at the logical offset: two at most,
\* the second at byte position offset * PAD + 16 for metadata_length bytes
TwoReadsAtMost(offset, res) ==
    /\ Len(res.io) \in {1, 2}
    /\ Len(res.io) = 2 =>
           /\ res.io[2].pos = BigAdd(ReadPosWide(offset), Big(HeaderLen))
           /\ res.io[2].len = LengthField(res)

\* C14: every read call issues at most two positional reads, whatever its
\* outcome; a second read starts at byte position offset * PAD + 16 and asks
\* for exactly metadata_length bytes.  The same holds of every read of a scan.
C14_AtMostTwoReads ==
    /\ rd.called => TwoReadsAtMost(rd.offset, rd.res)
    /\ sc.iters > 0 => TwoReadsAtMost(sc.lastAt, sc.last)

\* C14 with the second read placed 16 bytes after the first one, wherever the
\* first one was
C14_AfterTheFirstRead ==
    /\ rd.called =>
           /\ Len(rd.res.io) \in {1, 2}
           /\ Len(rd.res.io) = 2 =>
                  /\ rd.res.io[2].pos = BigAdd(rd.res.io[1].pos, Big(HeaderLen))
                  /\ rd.res.io[2].len = LengthField(rd.res)
    /\ sc.iters > 0 =>
           /\ Len(sc.last.io) \in {1, 2}
           /\ Len(sc.last.io) = 2 =>
                  /\ sc.last.io[2].pos = BigAdd(sc.last.io[1].pos, Big(HeaderLen))
                  /\ sc.last.io[2].len = LengthField(sc.last)

\* the first positional read of the read brought 16 bytes or more whose magic
\* or header checksum is wrong
HeaderBad(res) == BigLe(Big(HeaderLen), res.io[1].n) /\ ~HeaderPassed(res)

\* a read that stopped at the header: Corrupt after one positional read, with
\* no payload and no next offset derived from the length field
StoppedAtHeader(res) ==
    /\ res.err = "EBADSLT"
    /\ Len(res.io) = 1
    /\ res.data = NoBytes
    /\ res.next = Big0

\* C15: the header is verified before its length field is trusted: a second
\* positional read is issued, and a payload returned, only for a header that
\* passed the magic check and the header-checksum check; a candidate with a
\* wrong magic or a wrong header checksum gives Corrupt with exactly one
\* positional read.  The same holds of every read of a scan.
C15_HeaderBeforeLength ==
    /\ rd.called =>
           /\ (Len(rd.res.io) = 2 \/ rd.res.err = "nil") => HeaderPassed(rd.res)
           /\ HeaderBad(rd.res) => StoppedAtHeader(rd.res)
    /\ sc.iters > 0 =>
           /\ (Len(sc.last.io) = 2 \/ sc.last.err = "nil") => HeaderPassed(sc.last)
           /\ HeaderBad(sc.last) => StoppedAtHeader(sc.last)

\* a read of a record whose length field was changed after it was written, so
\* that the header checksum no longer matches, by a handle whose block holds
\* the header only
C15_Witness ==
    /\ rd.called /\ handle.blockSize = 16
    /\ \E i \in 1..Len(written) : written[i].kind = "badsum" /\ written[i].off = rd.offset
    /\ HeaderBad(rd.res) /\ LengthField(rd.res) # Big0
    /\ rd.res.err = "EBADSLT"

\* C16: in a scan, a read at cursor offset o is at the cursor; when it returns
\* Corrupt the callback is not invoked for o, the scan goes on, and the cursor
\* of the next read is o + 1, one offset unit further and never o again; the
\* scan returns checksum mismatch only if the callback returned it.
C16_ResyncByOne ==
    [][/\ sc'.iters = sc.iters + 1 => sc'.lastAt = sc.offset
       /\ (sc'.iters = sc.iters + 1 /\ sc'.last.err = "EBADSLT") =>
              /\ delivered' = delivered
              /\ sc'.st = "run"
              /\ sc'.offset = BigAdd(sc.offset, Big(1))
              /\ sc'.offset # sc.offset
       /\ sc'.ret = "EBADSLT" => sc'.cb = "EBADSLT"]_vars

\* a scan from offset 0 that met a corrupt candidate there, resynchronized
\* and handed over the record at offset 1
C16_Witness ==
    /\ sc.start = Big0 /\ sc.resyncs = 1 /\ Len(delivered) = 1
    /\ delivered[1].offset = Big(1)

\* C17: the scan cursor strictly increases: every record handed to the
\* callback has next offset > offset, the offsets handed to the callback are
\* strictly ascending, and while the scan runs its cursor lies beyond the
\* offset of its last read.
C17_CursorIncreases ==
    /\ \A i \in 1..Len(delivered) : BigLt(delivered[i].offset, delivered[i].next)
    /\ \A i \in 1..Len(delivered) : \A j \in 1..Len(delivered) :
           i < j => BigLt(delivered[i].offset, delivered[j].offset)
    /\ (sc.st = "run" /\ sc.iters > 0) => BigLt(sc.lastAt, sc.offset)

\* C17 for the files without a record of 4 GiB
C17_BelowFourGiB ==
    (\A i \in 1..Len(written) : written[i].kind # "huge") =>
        /\ \A i \in 1..Len(delivered) : BigLt(delivered[i].offset, delivered[i].next)
        /\ \A i \in 1..Len(delivered) : \A j \in 1..Len(delivered) :
               i < j => BigLt(delivered[i].offset, delivered[j].offset)
        /\ (sc.st = "run" /\ sc.iters > 0) => BigLt(sc.lastAt, sc.offset)

\* the block sizes a handle can have, 16 or more
HandleBlockSizes == {DefaultBlockSize(b) : b \in {a \in BlockSizes : BlockSizeOk(DefaultBlockSize(a))}}

\* outcome class, payload and next offset of a read, without its I/O history
OutcomeOf(res) == [data |-> res.data, next |-> res.next, err |-> res.err]

\* what a read at the logical offset returns with block size b when the
\* source serves every positional read
Served(offset, b) == ReadFromReader(file, offset, b, "ok", "ok")

\* C18: with a source without I/O errors the outcome of a read does not depend
\* on the block size: what a read returned is what a read at the same offset
\* returns with every other block size, and so is every read of a scan, hence
\* every record handed to the callback.
C18_BlockSizeIndependent ==
    /\ (rd.called /\ NoIoError(rd.res)) =>
           \A b \in HandleBlockSizes : OutcomeOf(Served(rd.offset, b)) = OutcomeOf(rd.res)
    /\ (sc.iters > 0 /\ NoIoError(sc.last)) =>
           \A b \in HandleBlockSizes : OutcomeOf(Served(sc.lastAt, b)) = OutcomeOf(sc.last)

\* a read that took the record from its block where a handle with a smaller
\* block needs a second positional read
C18_Witness ==
    /\ rd.called /\ rd.res.err = "nil" /\ Len(rd.res.io) = 1 /\ NoIoError(rd.res)
    /\ \E b \in HandleBlockSizes : Len(Served(rd.offset, b).io) = 2

\* the file is complete valid records followed by one record cut off in
\* mid-write: a valid header whose payload extends past the end of the file
TruncatedTail ==
    /\ Len(written) >= 1
    /\ written[Len(written)].kind = "cut"
    /\ \A i \in 1..(Len(written) - 1) : written[i].kind \in Whole

RECURSIVE ScanAlone(_, _, _)
ScanAlone(offset, bs, fuel) ==
    IF fuel = 0 THEN [delivered |-> <<>>, ret |-> "none"]
    ELSE LET r == ReadFromReader(file, offset, bs, "ok", "ok")
         IN  IF r.err = "EOF" THEN [delivered |-> <<>>, ret |-> "nil"]
             ELSE IF r.err = "EBADSLT" THEN ScanAlone(Resync(offset), bs, fuel - 1)
             ELSE IF r.err # "nil" THEN [delivered |-> <<>>, ret |-> r.err]
             ELSE LET rec == [data |-> r.data, offset |-> offset, next |-> r.next]
                  IN  IF Callback(offset) # "nil"
                      THEN [delivered |-> <<rec>>, ret |-> Callback(offset)]
                      ELSE LET rest == ScanAlone(r.next, bs, fuel - 1)
                           IN  [delivered |-> <<rec>> \o rest.delivered, ret |-> rest.ret]

\* the Read call returned what ReadFromReader returns when run alone
ReadAsAlone ==
    rd.called => rd.res = ReadFromReader(file, rd.offset, pend.rd.bs, "ok", "ok")

\* the scan handed over the first records a scan alone hands over, and all of
\* them with the same return value once it has ended
ScanAsAlone(alone) ==
    /\ Len(delivered) <= Len(alone.delivered)
    /\ delivered = SubSeq(alone.delivered, 1, Len(delivered))
    /\ sc.st = "done" => (delivered = alone.delivered /\ sc.ret = alone.ret)

\* a step of the Read call leaves the scan and everything the calls share as
\* they are, and so does a step of the scan for the Read call
NoSharedWrite ==
    /\ (pend'.rd # pend.rd \/ rd' # rd) =>
           /\ pend'.sc = pend.sc /\ sc' = sc /\ delivered' = delivered
           /\ UNCHANGED <<file, revision, BLOCK_SIZE, readers>>
    /\ (pend'.sc # pend.sc \/ sc' # sc \/ delivered' # delivered) =>
           /\ pend'.rd = pend.rd /\ rd' = rd
           /\ UNCHANGED <<file, revision, BLOCK_SIZE, readers>>

\* C11: a Read and a Scan in flight at the same time, on one Reader or on two,
\* are independent: however their positional reads interleave, the Read
\* returns what it returns alone, the scan hands the callback the records it
\* hands over alone and returns the same, and no step of one call writes
\* anything the other call or the Reader holds.
C11_CallsIndependent ==
    /\ [](ReadAsAlone /\ (sc.st # "idle" => ScanAsAlone(ScanAlone(sc.start, pend.sc.bs, MaxIter))))
    /\ [][NoSharedWrite]_vars

\* a Read and a Scan on the same Reader, both between their first and their
\* second positional read, the scan having handed over a record already
C11_Witness ==
    /\ pend.rd.st = "second" /\ pend.sc.st = "second" /\ pend.rd.h = pend.sc.h
    /\ Len(delivered) >= 1

\* C12: the block size is a value of the Reader fixed at construction: the
\* block size a Reader holds is the one it was constructed with, whatever was
\* read, scanned or closed since, and every call reads with the block size its
\* Reader was constructed with.
C12_BlockSizePerHandle ==
    /\ \A h \in Handles :
           (readers[h].st # "none" /\ revision = "later") =>
               readers[h].blockSize = readers[h].made
    /\ pend.rd.st # "none" => pend.rd.bs = readers[pend.rd.h].made
    /\ pend.sc.st # "none" => pend.sc.bs = readers[pend.sc.h].made
    /\ rd.called => rd.res.io[1].len = Big(readers[pend.rd.h].made)
    /\ sc.iters > 0 => sc.last.io[1].len = Big(readers[pend.sc.h].made)

\* C12 for the later revision, whose Reader has the field blockSize
C12_LaterRevision == revision = "later" => C12_BlockSizePerHandle

====
